---- MODULE Spec2Model ----
(***************************************************************************)
(* The browser daemon of browser_daemon.py: the tab registry (pages,       *)
(* current_page_index, automation.page), the dispatcher execute_command    *)
(* and the polling loop run(), with the command file and the result file   *)
(* as the two slots of the channel.  The page library (Playwright) is the  *)
(* environment: every call into it either returns or raises, and a page    *)
(* can be closed from outside at any time.                                 *)
(***************************************************************************)
EXTENDS Integers, Sequences, FiniteSets, TLC

\* Bound of the model: how many browser pages are ever created.
MaxPages == 2
\* Bound of the model: how many times the caller calls send_command.
MaxCalls == 2

(***************************************************************************)
(* Strings that the code inspects are sequences of characters; the other   *)
(* strings are kept whole.                                                 *)
(***************************************************************************)
http_ == <<"h", "t", "t", "p", ":", "/", "/">>
https_ == <<"h", "t", "t", "p", "s", ":", "/", "/">>
bing_com == <<"b", "i", "n", "g", ".", "c", "o", "m">>
https_bing_com == https_ \o bing_com
http_b == http_ \o <<"b">>
about_blank == <<"about:blank">>
New_Tab == <<"New Tab">>
Closed_Tab == <<"Closed Tab">>
general == <<"general">>
search == <<"search">>
sel_a == <<"#a">>
text_a == <<"hello">>
screenshot_png == <<"screenshot.png">>
script_a == <<"1+1">>

(***************************************************************************)
(* JSON values of a command's args.  k = "absent": the key is not in the   *)
(* mapping; "none": null; "float" with n stands for the number n + 0.5.    *)
(***************************************************************************)
Absent == [k |-> "absent", n |-> 0, s |-> <<>>]
None == [k |-> "none", n |-> 0, s |-> <<>>]
StrV(s) == [k |-> "str", n |-> 0, s |-> s]
IntV(n) == [k |-> "int", n |-> n, s |-> <<>>]
FloatV(n) == [k |-> "float", n |-> n, s |-> <<>>]

\* dict.get(key): None for a missing key
Get(args, key) == IF args[key].k = "absent" THEN None ELSE args[key]
\* dict.get(key, default)
GetDefault(args, key, default) == IF args[key].k = "absent" THEN default ELSE args[key]
\* Python truth value of a JSON value
Truthy(v) ==
    CASE v.k = "str" -> v.s # <<>>
      [] v.k = "int" -> v.n # 0
      [] v.k = "float" -> TRUE
      [] OTHER -> FALSE
\* the text of a value inside an f-string
Render(v) ==
    CASE v.k = "str" -> v.s
      [] v.k = "int" -> <<ToString(v.n)>>
      [] v.k = "float" -> <<ToString(v.n), ".5">>
      [] OTHER -> <<"None">>
\* Python's == between two numbers (an int never equals n + 0.5)
NumEq(a, b) == a.k = b.k /\ a.n = b.n
\* 0 <= v < len for a number v
InRange(v, len) == 0 <= v.n /\ v.n < len

\* str.startswith
StartsWith(s, prefix) ==
    Len(s) >= Len(prefix) /\ SubSeq(s, 1, Len(prefix)) = prefix

NoArgs ==
    [url |-> Absent, selector |-> Absent, text |-> Absent, filename |-> Absent,
     script |-> Absent, purpose |-> Absent, index |-> Absent, timeout |-> Absent]

\* A command file's content: a JSON object {type, args}, or some other JSON value
\* (dict = FALSE).  A missing type reads as None, whose text is "None".
Cmd(type, args) == [dict |-> TRUE, type |-> type, args_dict |-> TRUE, args |-> args]
BadArgs(type) == [dict |-> TRUE, type |-> type, args_dict |-> FALSE, args |-> NoArgs]
NotADict == [dict |-> FALSE, type |-> "None", args_dict |-> FALSE, args |-> NoArgs]
NoCommand == [dict |-> FALSE, type |-> "", args_dict |-> FALSE, args |-> NoArgs]

UrlArgs == {StrV(bing_com), StrV(https_bing_com), StrV(http_b), Absent}
IndexArgs ==
    {IntV(n) : n \in (0 - 1)..MaxPages} \cup {Absent, FloatV(0), StrV(<<"x">>)}

Commands ==
    {Cmd("navigate", [NoArgs EXCEPT !.url = u]) : u \in UrlArgs}
    \cup {Cmd("click", [NoArgs EXCEPT !.selector = StrV(sel_a)])}
    \cup {Cmd("fill", [NoArgs EXCEPT !.selector = StrV(sel_a), !.text = StrV(text_a)])}
    \cup {Cmd("screenshot", NoArgs)}
    \cup {Cmd("wait", [NoArgs EXCEPT !.selector = StrV(sel_a)]),
          Cmd("wait", [NoArgs EXCEPT !.selector = StrV(sel_a), !.timeout = IntV(5000)])}
    \cup {Cmd("js", [NoArgs EXCEPT !.script = StrV(script_a)])}
    \cup {Cmd("new_tab", NoArgs),
          Cmd("new_tab", [NoArgs EXCEPT !.purpose = StrV(search), !.url = StrV(bing_com)]),
          Cmd("new_tab", [NoArgs EXCEPT !.url = IntV(5)])}
    \cup {Cmd("switch_tab", [NoArgs EXCEPT !.index = i]) : i \in IndexArgs}
    \cup {Cmd(t, NoArgs) : t \in {"title", "list_tabs", "current_tab", "stop",
                                  "teleport", "None"}}
    \cup {BadArgs(t) : t \in {"navigate", "new_tab", "switch_tab"}}
    \cup {NotADict}

(***************************************************************************)
(* Results.  A message is a format of the code with the text put in it.    *)
(***************************************************************************)
Msg(fmt, arg) == [fmt |-> fmt, arg |-> arg]
NoData == [k |-> "none"]
Result(status, message, data) == [status |-> status, message |-> message, data |-> data]
NoResult == Result("", Msg("", <<>>), NoData)
\* the dict a BrowserAutomation method returns
OpData(success) == [k |-> "op", success |-> success]

\* What a dispatch asked of the page library: the operation, the address handed to
\* goto (if any) and whether the operation raised.
NoIo == [op |-> "none", target |-> <<>>, failed |-> FALSE]
Io(op, target, failed) == [op |-> op, target |-> target, failed |-> failed]

\* The outcome of a piece of code: the daemon state it leaves, what it returns, and
\* the exception it raises (raised = TRUE; error is str(e)).
Return(d, result, io) == [d |-> d, raised |-> FALSE, result |-> result, error |-> <<>>, io |-> io]
Raise(d, error, io) == [d |-> d, raised |-> TRUE, result |-> NoResult, error |-> error, io |-> io]

(***************************************************************************)
(* The page library.  A page handle is a number 1..Len(live); 0 is None.   *)
(***************************************************************************)
\* What page.title() and page.url can give for an open page: the page shows what
\* the browser made of the last navigation, which the daemon does not decide.
PageReads == {[title |-> <<"Bing">>, url |-> https_bing_com]}
\* a call on a page returns only if the page exists and is open
PageAlive(d, h) == h # 0 /\ d.live[h]

\* NormalizeUrl with only the "http://" prefix tested
NormalizeUrl_OnePrefix(url) ==
    IF StartsWith(url, http_) THEN url ELSE https_ \o url

\* NormalizeUrl with "http://" as the prefix put before the string
NormalizeUrl_Http(url) ==
    IF StartsWith(url, http_) \/ StartsWith(url, https_) THEN url ELSE http_ \o url

\* URL normalization of navigate and new_tab
NormalizeUrl(url) ==
    IF StartsWith(url, http_) \/ StartsWith(url, https_) THEN url ELSE https_ \o url

(***************************************************************************)
(* BrowserAutomation: each method catches what the page raises and reports *)
(* it in the dict it returns.                                              *)
(***************************************************************************)
navigate_to(d, url, ok) ==
    IF PageAlive(d, d.page) /\ ok
    THEN [d |-> d, data |-> OpData(TRUE), io |-> Io("goto", url, FALSE)]
    ELSE [d |-> d, data |-> OpData(FALSE), io |-> Io("goto", url, TRUE)]

\* click_element, fill_form, take_screenshot, execute_javascript
page_method(d, op, ok) ==
    IF PageAlive(d, d.page) /\ ok
    THEN [d |-> d, data |-> OpData(TRUE), io |-> Io(op, <<>>, FALSE)]
    ELSE [d |-> d, data |-> OpData(FALSE), io |-> Io(op, <<>>, TRUE)]

\* the default of wait_for_element's timeout parameter, in milliseconds
wait_timeout_default == 30000

\* wait_for_element(selector, timeout=30000): page.wait_for_selector is handed
\* the timeout, or the default when the caller passes none
wait_for_element(d, timeout, ok) ==
    LET t == IF timeout = Absent THEN IntV(wait_timeout_default) ELSE timeout IN
    IF PageAlive(d, d.page) /\ ok
    THEN [d |-> d, data |-> OpData(TRUE), io |-> Io("wait", Render(t), FALSE)]
    ELSE [d |-> d, data |-> OpData(FALSE), io |-> Io("wait", Render(t), TRUE)]

(***************************************************************************)
(* The daemon's state d: pages, current_page_index, running, and of        *)
(* self.automation: automation (it is set), playwright, browser, context   *)
(* (the attributes are set) and page (a handle, 0 for None); live[h] tells *)
(* whether the browser's page h is open.  ch is what the page library does *)
(* this time: ch.newpage, context.new_page() returns; ch.op, the operation *)
(* on an open page returns; ch.read[h], what page h shows.                 *)
(***************************************************************************)
AttributeError == <<"AttributeError">>
TypeError == <<"TypeError">>
PlaywrightError == <<"playwright Error">>

\* tab.get('purpose', 'general')
TabPurpose(tab) == IF tab.purpose.k = "absent" THEN StrV(general) ELSE tab.purpose

\* execute_command, type "navigate"
Navigate(d, cmd, ch) ==
    IF ~cmd.args_dict THEN Raise(d, AttributeError, NoIo)
    ELSE LET url == Get(cmd.args, "url") IN
         IF url.k # "str" THEN Raise(d, AttributeError, NoIo)
         ELSE LET target == NormalizeUrl(url.s)
                  r == navigate_to(d, target, ch.op)
              IN  Return(r.d, Result("success", Msg("Navigated to ", target), r.data), r.io)

\* execute_command, type "click"
Click(d, cmd, ch) ==
    IF ~cmd.args_dict THEN Raise(d, AttributeError, NoIo)
    ELSE LET selector == Get(cmd.args, "selector")
             r == page_method(d, "click", ch.op /\ selector.k = "str")
         IN  Return(r.d, Result("success", Msg("Clicked ", Render(selector)), r.data), r.io)

\* execute_command, type "fill"
Fill(d, cmd, ch) ==
    IF ~cmd.args_dict THEN Raise(d, AttributeError, NoIo)
    ELSE LET selector == Get(cmd.args, "selector")
             text == Get(cmd.args, "text")
             r == page_method(d, "fill", ch.op /\ selector.k = "str" /\ text.k = "str")
         IN  Return(r.d,
                    Result("success", Msg("Filled  with ", Render(selector) \o Render(text)),
                           r.data),
                    r.io)

\* execute_command, type "screenshot"
Screenshot(d, cmd, ch) ==
    IF ~cmd.args_dict THEN Raise(d, AttributeError, NoIo)
    ELSE LET filename == GetDefault(cmd.args, "filename", StrV(screenshot_png))
             r == page_method(d, "screenshot", ch.op /\ filename.k = "str")
         IN  Return(r.d,
                    Result("success", Msg("Screenshot saved as ", Render(filename)), r.data),
                    r.io)

\* execute_command, type "title"
Title(d, ch) ==
    IF ~PageAlive(d, d.page)
    THEN Raise(d, IF d.page = 0 THEN AttributeError ELSE PlaywrightError,
               Io("title", <<>>, TRUE))
    ELSE LET title == ch.read[d.page].title
         IN  Return(d,
                    Result("success", Msg("Page title: ", title),
                           [k |-> "title", title |-> title]),
                    Io("title", <<>>, FALSE))

\* execute_command, type "wait"
Wait(d, cmd, ch) ==
    IF ~cmd.args_dict THEN Raise(d, AttributeError, NoIo)
    ELSE LET selector == Get(cmd.args, "selector")
             r == wait_for_element(d, Absent, ch.op /\ selector.k = "str")
         IN  Return(r.d, Result("success", Msg("Waited for ", Render(selector)), r.data), r.io)

\* execute_command, type "js"
Js(d, cmd, ch) ==
    IF ~cmd.args_dict THEN Raise(d, AttributeError, NoIo)
    ELSE LET script == Get(cmd.args, "script")
             r == page_method(d, "js", ch.op /\ script.k = "str")
         IN  Return(r.d, Result("success", Msg("JavaScript executed", <<>>), r.data), r.io)

\* the Result of a successful new_tab
NewTabResult(tab_info) ==
    Result("success", Msg("New tab opened (Tab )", <<ToString(tab_info.index + 1)>>),
           [k |-> "new_tab", tab_index |-> tab_info.index,
            purpose |-> tab_info.purpose, url |-> tab_info.url])

\* NewTabIndex counting tabs from 1
NewTabIndex_FromOne(d) == Len(d.pages) + 1

\* 'index': len(self.pages), the index a new tab gets
NewTabIndex(d) == Len(d.pages)

\* execute_command, type "new_tab"
NewTab(d, cmd, ch) ==
    IF ~d.context THEN Raise(d, AttributeError, NoIo)
    ELSE IF ~ch.newpage THEN Raise(d, PlaywrightError, Io("new_page", <<>>, TRUE))
    ELSE
    LET new_page == Len(d.live) + 1
        d1 == [d EXCEPT !.live = Append(@, TRUE)]
    IN
    IF ~cmd.args_dict THEN Raise(d1, AttributeError, Io("new_page", <<>>, FALSE))
    ELSE
    LET tab_info == [page |-> new_page, title |-> New_Tab, url |-> about_blank,
                     index |-> NewTabIndex(d),
                     purpose |-> GetDefault(cmd.args, "purpose", StrV(general))]
        d2 == [d1 EXCEPT !.pages = Append(@, tab_info),
                         !.current_page_index = IntV(Len(d.pages) + 1 - 1),
                         !.page = new_page]
        url == Get(cmd.args, "url")
    IN
    IF ~Truthy(url) THEN Return(d2, NewTabResult(tab_info), Io("new_page", <<>>, FALSE))
    ELSE IF url.k # "str" THEN Raise(d2, AttributeError, Io("new_page", <<>>, FALSE))
    ELSE
    LET target == NormalizeUrl(url.s) IN
    IF ~ch.op THEN Raise(d2, PlaywrightError, Io("goto", target, TRUE))
    ELSE
    LET tab_nav == [tab_info EXCEPT !.url = target, !.title = ch.read[new_page].title]
        d3 == [d2 EXCEPT !.pages[Len(d2.pages)] = tab_nav]
    IN  Return(d3, NewTabResult(tab_nav), Io("goto", target, FALSE))

\* SelectTab with the index stored only once the page is in front
SelectTab_FrontFirst(d, tab_index) ==
    IF tab_index.k # "int" THEN Raise(d, TypeError, NoIo)
    ELSE
    LET current_tab == d.pages[tab_index.n + 1] IN
    IF ~PageAlive(d, current_tab.page)
    THEN Raise(d, PlaywrightError, Io("bring_to_front", <<>>, TRUE))
    ELSE Return([d EXCEPT !.current_page_index = tab_index, !.page = current_tab.page],
                Result("success", Msg("Switched to Tab ", <<ToString(tab_index.n + 1)>>),
                       [k |-> "tab", tab_index |-> tab_index, title |-> current_tab.title,
                        url |-> current_tab.url, purpose |-> TabPurpose(current_tab)]),
                Io("bring_to_front", <<>>, FALSE))

\* execute_command, type "switch_tab", the index is inside the tab list
SelectTab(d, tab_index) ==
    LET d1 == [d EXCEPT !.current_page_index = tab_index] IN
    IF tab_index.k # "int" THEN Raise(d1, TypeError, NoIo)
    ELSE
    LET current_tab == d.pages[tab_index.n + 1]
        d2 == [d1 EXCEPT !.page = current_tab.page]
    IN
    IF ~PageAlive(d2, d2.page)
    THEN Raise(d2, PlaywrightError, Io("bring_to_front", <<>>, TRUE))
    ELSE Return(d2,
                Result("success", Msg("Switched to Tab ", <<ToString(tab_index.n + 1)>>),
                       [k |-> "tab", tab_index |-> tab_index, title |-> current_tab.title,
                        url |-> current_tab.url, purpose |-> TabPurpose(current_tab)]),
                Io("bring_to_front", <<>>, FALSE))

\* SwitchTab with the index stored before it is tested
SwitchTab_StoreFirst(d, cmd) ==
    IF ~cmd.args_dict THEN Raise(d, AttributeError, NoIo)
    ELSE
    LET tab_index == GetDefault(cmd.args, "index", IntV(0))
        d1 == [d EXCEPT !.current_page_index = tab_index]
    IN
    IF tab_index.k \notin {"int", "float"} THEN Raise(d1, TypeError, NoIo)
    ELSE IF ~InRange(tab_index, Len(d.pages))
    THEN Return(d1, Result("error", Msg("Tab index  not found", Render(tab_index)), NoData),
                NoIo)
    ELSE SelectTab(d, tab_index)

\* execute_command, type "switch_tab"
SwitchTab(d, cmd) ==
    IF ~cmd.args_dict THEN Raise(d, AttributeError, NoIo)
    ELSE
    LET tab_index == GetDefault(cmd.args, "index", IntV(0)) IN
    IF tab_index.k \notin {"int", "float"} THEN Raise(d, TypeError, NoIo)
    ELSE IF ~InRange(tab_index, Len(d.pages))
    THEN Return(d, Result("error", Msg("Tab index  not found", Render(tab_index)), NoData),
                NoIo)
    ELSE SelectTab(d, tab_index)

\* ClosedTabInfo with the active flag computed as for an open tab
ClosedTabInfo_Active(d, i) ==
    [index |-> i - 1, title |-> Closed_Tab, url |-> about_blank,
     purpose |-> TabPurpose(d.pages[i]),
     active |-> NumEq(IntV(i - 1), d.current_page_index)]

\* list_tabs, the entry of a tab whose title or url cannot be read
ClosedTabInfo(d, i) ==
    [index |-> i - 1, title |-> Closed_Tab, url |-> about_blank,
     purpose |-> TabPurpose(d.pages[i]), active |-> FALSE]

\* OpenTabInfo marking the first tab active whichever tab is current
OpenTabInfo_FirstActive(d, i, tab) ==
    [index |-> i - 1, title |-> tab.title, url |-> tab.url, purpose |-> TabPurpose(tab),
     active |-> (i = 1)]

\* list_tabs, the entry of a tab that was refreshed to tab
OpenTabInfo(d, i, tab) ==
    [index |-> i - 1, title |-> tab.title, url |-> tab.url, purpose |-> TabPurpose(tab),
     active |-> NumEq(IntV(i - 1), d.current_page_index)]

\* ListTabs dropping from the tab list the tabs whose page cannot be read
ListTabs_DropsClosed(d, ch) ==
    LET n == Len(d.pages)
        readable(i) == PageAlive(d, d.pages[i].page)
        open(tab) == PageAlive(d, tab.page)
        tabs_info ==
            [i \in 1..n |->
                IF readable(i) THEN OpenTabInfo(d, i, d.pages[i]) ELSE ClosedTabInfo(d, i)]
    IN  Return([d EXCEPT !.pages = SelectSeq(d.pages, open)],
               Result("success", Msg("Found  tabs", <<ToString(n)>>),
                      [k |-> "tabs", tabs |-> tabs_info,
                       current_tab |-> d.current_page_index]),
               Io("title", <<>>, \E i \in 1..n : ~readable(i)))

\* execute_command, type "list_tabs"
ListTabs(d, ch) ==
    LET n == Len(d.pages)
        readable(i) == PageAlive(d, d.pages[i].page)
        refreshed(i) ==
            [d.pages[i] EXCEPT !.title = ch.read[d.pages[i].page].title,
                               !.url = ch.read[d.pages[i].page].url]
        pages1 == [i \in 1..n |-> IF readable(i) THEN refreshed(i) ELSE d.pages[i]]
        tabs_info ==
            [i \in 1..n |->
                IF readable(i) THEN OpenTabInfo(d, i, pages1[i]) ELSE ClosedTabInfo(d, i)]
    IN  Return([d EXCEPT !.pages = pages1],
               Result("success", Msg("Found  tabs", <<ToString(n)>>),
                      [k |-> "tabs", tabs |-> tabs_info,
                       current_tab |-> d.current_page_index]),
               Io("title", <<>>, \E i \in 1..n : ~readable(i)))

\* CurrentTab falling back to the first tab when the current one is closed
CurrentTab_FirstTab(d, ch) ==
    IF d.pages # <<>> /\ d.current_page_index.k = "int"
       /\ ~PageAlive(d, d.pages[d.current_page_index.n + 1].page)
    THEN Return([d EXCEPT !.current_page_index = IntV(0)],
                Result("success", Msg("Current tab info", <<>>),
                       [k |-> "tab", tab_index |-> IntV(0), title |-> d.pages[1].title,
                        url |-> d.pages[1].url, purpose |-> TabPurpose(d.pages[1])]),
                Io("title", <<>>, TRUE))
    ELSE Return(d, Result("error", Msg("No tabs available", <<>>), NoData), NoIo)

\* execute_command, type "current_tab"
CurrentTab(d, ch) ==
    IF d.pages = <<>>
    THEN Return(d, Result("error", Msg("No tabs available", <<>>), NoData), NoIo)
    ELSE IF d.current_page_index.k # "int" THEN Raise(d, TypeError, NoIo)
    ELSE
    LET i == d.current_page_index.n + 1
        ok == PageAlive(d, d.pages[i].page)
        current_tab ==
            IF ok
            THEN [d.pages[i] EXCEPT !.title = ch.read[d.pages[i].page].title,
                                    !.url = ch.read[d.pages[i].page].url]
            ELSE d.pages[i]
    IN  Return([d EXCEPT !.pages[i] = current_tab],
               Result("success", Msg("Current tab info", <<>>),
                      [k |-> "tab", tab_index |-> d.current_page_index,
                       title |-> current_tab.title, url |-> current_tab.url,
                       purpose |-> TabPurpose(current_tab)]),
               Io("title", <<>>, ~ok))

\* Stop answering with the status "stopped", as start_browser answers "started"
Stop_Stopped(d) ==
    Return([d EXCEPT !.running = FALSE],
           Result("stopped", Msg("Stopping daemon", <<>>), NoData), NoIo)

\* execute_command, type "stop"
Stop(d) ==
    Return([d EXCEPT !.running = FALSE],
           Result("success", Msg("Stopping daemon", <<>>), NoData), NoIo)

\* Unknown without the type in the message
Unknown_NoType(d, cmd) ==
    Return(d, Result("error", Msg("Unknown command", <<>>), NoData), NoIo)

\* execute_command, any other type
Unknown(d, cmd) ==
    Return(d, Result("error", Msg("Unknown command: ", <<cmd.type>>), NoData), NoIo)

\* the body of execute_command's try block
Dispatch(d, cmd, ch) ==
    IF ~cmd.dict THEN Raise(d, AttributeError, NoIo)
    ELSE CASE cmd.type = "navigate" -> Navigate(d, cmd, ch)
           [] cmd.type = "click" -> Click(d, cmd, ch)
           [] cmd.type = "fill" -> Fill(d, cmd, ch)
           [] cmd.type = "screenshot" -> Screenshot(d, cmd, ch)
           [] cmd.type = "title" -> Title(d, ch)
           [] cmd.type = "wait" -> Wait(d, cmd, ch)
           [] cmd.type = "js" -> Js(d, cmd, ch)
           [] cmd.type = "new_tab" -> NewTab(d, cmd, ch)
           [] cmd.type = "switch_tab" -> SwitchTab(d, cmd)
           [] cmd.type = "list_tabs" -> ListTabs(d, ch)
           [] cmd.type = "current_tab" -> CurrentTab(d, ch)
           [] cmd.type = "stop" -> Stop(d)
           [] OTHER -> Unknown(d, cmd)

\* execute_command without its except clause
execute_command_NoExcept(d, cmd, ch) ==
    IF ~d.automation
    THEN Return(d, Result("error", Msg("Browser not started", <<>>), NoData), NoIo)
    ELSE Dispatch(d, cmd, ch)

\* execute_command: the guard, and the except clause that makes a Result of whatever
\* the try block raised
execute_command(d, cmd, ch) ==
    IF ~d.automation
    THEN Return(d, Result("error", Msg("Browser not started", <<>>), NoData), NoIo)
    ELSE LET body == Dispatch(d, cmd, ch)
         IN  IF body.raised
             THEN Return(body.d, Result("error", Msg("", body.error), NoData), body.io)
             ELSE body

(***************************************************************************)
(* The state: the daemon object, the browser's pages, the two files, and   *)
(* run()'s position pc with its locals command_data and result, which     *)
(* nothing reads once the iteration is over (they are cleared there);     *)
(* io is what the dispatch of command_data asked of the page library.     *)
(* caller is the one process that runs send_command: its position, the     *)
(* number of its calls so far and how its last call ended.  tag is history *)
(* only: the number of the call that wrote the command now in the command  *)
(* file (command), in command_data (data) and the number of the call whose *)
(* command's dispatch produced the content of the result file (result; 0   *)
(* for the Result of start_browser), and whether a signal arrived during   *)
(* the dispatch of command_data (interrupted).                             *)
(***************************************************************************)
VARIABLES pages, current_page_index, running, automation, playwright, browser,
          context, page, live, command_file, result_file, pc, command_data,
          result, io, caller, tag

vars == <<pages, current_page_index, running, automation, playwright, browser,
          context, page, live, command_file, result_file, pc, command_data,
          result, io, caller, tag>>

\* a file that does not exist
NoFile == [exists |-> FALSE]
\* a file that open(..., 'w') has created or truncated and whose JSON text is not
\* written out yet: json.load of it raises
PartialFile == [exists |-> TRUE, complete |-> FALSE]

\* the caller between two calls of send_command; out is how the last call ended
\* ("none", "result", "timeout", "exception") and got the tag of the Result read
\* and ret the value returned
Idle(call, out, got, ret) ==
    [pc |-> "idle", call |-> call, out |-> out, got |-> got, ret |-> ret]
\* the caller inside call number call of send_command, at position at
InCall(call, at) == [pc |-> at, call |-> call, out |-> "none", got |-> 0, ret |-> NoResult]
\* interrupted: a signal arrived while command_data was being dispatched;
\* dispatched: the numbers of the caller's commands that execute_command has run;
\* teardown: the calls close_browser has made on the browser, in order;
\* closes: how many times close_browser has been called, counted up to MaxCloses
MaxCloses == 2

Closed(n) == IF n < MaxCloses THEN n + 1 ELSE MaxCloses

NoTags ==
    [command |-> 0, data |-> 0, result |-> 0, interrupted |-> FALSE, dispatched |-> {},
     teardown |-> <<>>, closes |-> 0]

DaemonState ==
    [pages |-> pages, current_page_index |-> current_page_index, running |-> running,
     automation |-> automation, playwright |-> playwright, browser |-> browser,
     context |-> context, page |-> page, live |-> live]

SetDaemonState(d) ==
    /\ pages' = d.pages
    /\ current_page_index' = d.current_page_index
    /\ running' = d.running
    /\ automation' = d.automation
    /\ playwright' = d.playwright
    /\ browser' = d.browser
    /\ context' = d.context
    /\ page' = d.page
    /\ live' = d.live

\* BrowserDaemon.__init__ up to the call of start_browser
Init ==
    /\ pages = <<>>
    /\ current_page_index = IntV(0)
    /\ running = TRUE
    /\ automation = FALSE
    /\ playwright = FALSE
    /\ browser = FALSE
    /\ context = FALSE
    /\ page = 0
    /\ live = <<>>
    /\ command_file = NoFile
    /\ result_file = NoFile
    /\ pc = "starting"
    /\ command_data = NoCommand
    /\ result = NoResult
    /\ io = NoIo
    /\ caller = Idle(0, "none", 0, NoResult)
    /\ tag = NoTags

\* start_browser, the browser starts
StartBrowser ==
    /\ pc = "starting"
    /\ automation' = TRUE
    /\ playwright' = TRUE
    /\ browser' = TRUE
    /\ context' = TRUE
    /\ page' = Len(live) + 1
    /\ live' = Append(live, TRUE)
    /\ pages' = Append(pages, [page |-> Len(live) + 1, title |-> New_Tab,
                               url |-> about_blank, index |-> 0, purpose |-> Absent])
    /\ result_file' = Result("started", Msg("Browser daemon ready", <<>>), NoData)
    /\ pc' = "loop"
    /\ UNCHANGED <<current_page_index, running, command_file, command_data, result,
                   io>>
    /\ UNCHANGED <<caller, tag>>

\* start_browser, BrowserAutomation.start_browser raises at one of its four calls
StartBrowserFails ==
    /\ pc = "starting"
    /\ \E stage \in {"playwright", "launch", "new_context", "new_page"} :
          /\ playwright' = (stage # "playwright")
          /\ browser' = (stage \in {"new_context", "new_page"})
          /\ context' = (stage = "new_page")
    /\ automation' = TRUE
    /\ result_file' = Result("error", Msg("", PlaywrightError), NoData)
    /\ pc' = "loop"
    /\ UNCHANGED <<pages, current_page_index, running, page, live, command_file,
                   command_data, result, io>>
    /\ UNCHANGED <<caller, tag>>

\* run: the loop condition and the test for the command file
DaemonPoll ==
    /\ pc = "loop"
    /\ pc' = IF ~running THEN "cleanup"
             ELSE IF command_file = NoFile THEN "sleep" ELSE "read"
    /\ UNCHANGED <<pages, current_page_index, running, automation, playwright, browser,
                   context, page, live, command_file, result_file, command_data,
                   result, io>>
    /\ UNCHANGED <<caller, tag>>

\* DaemonRead removing the command file as soon as it has read it
DaemonRead_Consumes ==
    /\ pc = "read"
    /\ IF command_file \in {NoFile, PartialFile}
       THEN pc' = "backoff" /\ UNCHANGED <<command_data, tag, command_file>>
       ELSE /\ pc' = "execute"
            /\ command_data' = command_file
            /\ command_file' = NoFile
            /\ tag' = [tag EXCEPT !.data = tag.command]
    /\ UNCHANGED <<pages, current_page_index, running, automation, playwright, browser,
                   context, page, live, result_file, result, io, caller>>

\* DaemonRead letting the exception of json.load end the loop
DaemonRead_Leaves ==
    /\ pc = "read"
    /\ IF command_file \in {NoFile, PartialFile}
       THEN pc' = "cleanup" /\ UNCHANGED <<command_data, tag>>
       ELSE /\ pc' = "execute"
            /\ command_data' = command_file
            /\ tag' = [tag EXCEPT !.data = tag.command]
    /\ UNCHANGED <<pages, current_page_index, running, automation, playwright, browser,
                   context, page, live, command_file, result_file, result, io, caller>>

\* run: open the command file and json.load it
DaemonRead ==
    /\ pc = "read"
    /\ IF command_file \in {NoFile, PartialFile}
       THEN pc' = "backoff" /\ UNCHANGED <<command_data, tag>>
       ELSE /\ pc' = "execute"
            /\ command_data' = command_file
            /\ tag' = [tag EXCEPT !.data = tag.command]
    /\ UNCHANGED <<pages, current_page_index, running, automation, playwright, browser,
                   context, page, live, command_file, result_file, result, io, caller>>

\* run: result = self.execute_command(command_data)
DaemonExecute ==
    /\ pc = "execute"
    /\ \E ch \in [newpage : BOOLEAN, op : BOOLEAN, read : [1..MaxPages -> PageReads]] :
          LET out == execute_command(DaemonState, command_data, ch) IN
          /\ SetDaemonState(out.d)
          /\ io' = out.io
          /\ IF out.raised
             THEN pc' = "backoff" /\ UNCHANGED result
             ELSE pc' = "write" /\ result' = out.result
    /\ tag' = [tag EXCEPT !.dispatched = IF tag.data = 0 THEN @ ELSE @ \cup {tag.data}]
    /\ UNCHANGED <<command_file, result_file, command_data, caller>>

\* DaemonWrite with the stop test of the loop made before the Result is written
DaemonWrite_BreaksFirst ==
    /\ pc = "write"
    /\ IF command_data.dict /\ command_data.type = "stop"
       THEN pc' = "cleanup" /\ UNCHANGED <<result_file, tag>>
       ELSE /\ result_file' = result
            /\ tag' = [tag EXCEPT !.result = tag.data]
            /\ pc' = "remove"
    /\ UNCHANGED <<pages, current_page_index, running, automation, playwright, browser,
                   context, page, live, command_file, command_data, result, io, caller>>

\* run: self.write_result(result)
DaemonWrite ==
    /\ pc = "write"
    /\ result_file' = result
    /\ tag' = [tag EXCEPT !.result = tag.data]
    /\ pc' = "remove"
    /\ UNCHANGED <<pages, current_page_index, running, automation, playwright, browser,
                   context, page, live, command_file, command_data, result, io, caller>>

\* DaemonRemove leaving the command file where it is
DaemonRemove_KeepsFile ==
    /\ pc = "remove"
    /\ pc' = IF ~command_data.dict THEN "backoff"
             ELSE IF command_data.type = "stop" THEN "cleanup" ELSE "sleep"
    /\ command_data' = NoCommand
    /\ result' = NoResult
    /\ io' = NoIo
    /\ UNCHANGED <<pages, current_page_index, running, automation, playwright, browser,
                   context, page, live, command_file, result_file>>
    /\ UNCHANGED <<caller, tag>>

\* run: os.remove(self.command_file), the print of the executed command and the
\* test for stop, which end the iteration
DaemonRemove ==
    /\ pc = "remove"
    /\ IF command_file = NoFile
       THEN pc' = "backoff" /\ UNCHANGED command_file
       ELSE /\ command_file' = NoFile
            /\ pc' = IF ~command_data.dict THEN "backoff"
                     ELSE IF command_data.type = "stop" THEN "cleanup" ELSE "sleep"
    /\ command_data' = NoCommand
    /\ result' = NoResult
    /\ io' = NoIo
    /\ UNCHANGED <<pages, current_page_index, running, automation, playwright, browser,
                   context, page, live, result_file>>
    /\ UNCHANGED <<caller, tag>>

\* run: time.sleep(0.1) at the end of an iteration
DaemonSleep ==
    /\ pc = "sleep"
    /\ pc' = "loop"
    /\ command_data' = NoCommand
    /\ result' = NoResult
    /\ io' = NoIo
    /\ UNCHANGED <<pages, current_page_index, running, automation, playwright, browser,
                   context, page, live, command_file, result_file>>
    /\ UNCHANGED <<caller, tag>>

\* run: the except clause of the loop, time.sleep(1)
DaemonBackoff ==
    /\ pc = "backoff"
    /\ pc' = "loop"
    /\ command_data' = NoCommand
    /\ result' = NoResult
    /\ io' = NoIo
    /\ UNCHANGED <<pages, current_page_index, running, automation, playwright, browser,
                   context, page, live, command_file, result_file>>
    /\ UNCHANGED <<caller, tag>>

\* BrowserAutomation.close_browser raises: self.browser is set and self.context was
\* never assigned (start_browser failed in new_context)
close_browser_raises(d) == d.browser /\ ~d.context

\* the elements of a sequence
Range(seq) == {seq[i] : i \in 1..Len(seq)}

\* close_browser with the engine stopped before the context is closed
close_browser_EngineFirst(d, done) ==
    IF close_browser_raises(d) \/ (d.browser /\ "playwright.stop" \in Range(done))
    THEN [d |-> d, raised |-> TRUE, calls |-> done]
    ELSE [d |-> [d EXCEPT !.live = [h \in 1..Len(d.live) |-> FALSE]],
          raised |-> FALSE,
          calls |-> done \o (IF d.playwright THEN <<"playwright.stop">> ELSE <<>>)
                        \o (IF d.browser THEN <<"context.close">> ELSE <<>>)]

\* BrowserAutomation.close_browser, after the calls done of earlier teardowns:
\* self.context.close() if self.browser is set, then self.playwright.stop() if
\* self.playwright is set.  context.close() raises when context was never
\* assigned, and when the engine has been stopped already; what it raises leaves
\* close_browser before playwright.stop() is reached.
close_browser(d, done) ==
    IF close_browser_raises(d) \/ (d.browser /\ "playwright.stop" \in Range(done))
    THEN [d |-> d, raised |-> TRUE, calls |-> done]
    ELSE [d |-> [d EXCEPT !.live = [h \in 1..Len(d.live) |-> FALSE]],
          raised |-> FALSE,
          calls |-> done \o (IF d.browser THEN <<"context.close">> ELSE <<>>)
                        \o (IF d.playwright THEN <<"playwright.stop">> ELSE <<>>)]

\* run: the cleanup after the loop; an exception of close_browser ends the process
DaemonCleanup ==
    /\ pc = "cleanup"
    /\ pc' = "stopped"
    /\ LET c == close_browser(DaemonState, tag.teardown) IN
       /\ live' = IF automation THEN c.d.live ELSE live
       /\ tag' = [tag EXCEPT !.teardown = IF automation THEN c.calls ELSE @,
                             !.closes = IF automation THEN Closed(@) ELSE @]
    /\ UNCHANGED <<pages, current_page_index, running, automation, playwright, browser,
                   context, page, command_file, result_file, command_data, result,
                   io, caller>>

\* send_command up to the write of the command file: a caller removes the old
\* result file and writes a command
SendCommand ==
    /\ command_file = NoFile
    /\ \E c \in Commands :
          /\ c.type = "new_tab" => Len(live) < MaxPages
          /\ command_file' = c
    /\ result_file' = NoFile
    /\ UNCHANGED <<pages, current_page_index, running, automation, playwright, browser,
                   context, page, live, pc, command_data, result, io>>
    /\ UNCHANGED <<caller, tag>>

\* outside the daemon: the user closes a page of the browser
ClosePage ==
    /\ \E h \in 1..Len(live) :
          /\ live[h]
          /\ live' = [live EXCEPT ![h] = FALSE]
    /\ UNCHANGED <<pages, current_page_index, running, automation, playwright, browser,
                   context, page, command_file, result_file, pc, command_data, result,
                   io>>
    /\ UNCHANGED <<caller, tag>>

Next ==
    \/ StartBrowser
    \/ StartBrowserFails
    \/ DaemonPoll
    \/ DaemonRead
    \/ DaemonExecute
    \/ DaemonWrite
    \/ DaemonRemove
    \/ DaemonSleep
    \/ DaemonBackoff
    \/ DaemonCleanup
    \/ SendCommand
    \/ ClosePage

Spec == Init /\ [][Next]_vars

(***************************************************************************)
(* The channel step by step: send_command as the caller runs it, the two   *)
(* steps of write_result (open, which creates or truncates the file, and   *)
(* json.dump with the close), and the signal handler.  A file removed      *)
(* while a process has it open for writing is gone once the write ends.    *)
(***************************************************************************)
\* the fields of the daemon object and of its BrowserAutomation
daemon_fields ==
    <<pages, current_page_index, running, automation, playwright, browser, context,
      page, live>>

\* the commands the caller sends over the channel
ChannelCommands ==
    {Cmd(t, NoArgs) : t \in {"title", "list_tabs", "current_tab", "stop"}}

\* the Result send_command makes up when it gives up waiting
TimeoutResult == Result("error", Msg("Command timeout", <<>>), NoData)

\* send_command: a call begins with the test for an old result file
CallerBegin ==
    /\ caller.pc = "idle"
    /\ caller.call < MaxCalls
    /\ caller' = InCall(caller.call + 1,
                        IF result_file = NoFile THEN "open" ELSE "remove_old")
    /\ UNCHANGED <<daemon_fields, command_file, result_file, pc, command_data, result,
                   io, tag>>

\* send_command: os.remove(result_file)
CallerRemoveOld ==
    /\ caller.pc = "remove_old"
    /\ IF result_file = NoFile
       THEN caller' = Idle(caller.call, "exception", 0, NoResult)
       ELSE caller' = [caller EXCEPT !.pc = "open"]
    /\ result_file' = NoFile
    /\ UNCHANGED <<daemon_fields, command_file, pc, command_data, result, io, tag>>

\* send_command: open(command_file, 'w')
CallerOpenCommand ==
    /\ caller.pc = "open"
    /\ command_file' = PartialFile
    /\ caller' = [caller EXCEPT !.pc = "dump"]
    /\ UNCHANGED <<daemon_fields, result_file, pc, command_data, result, io, tag>>

\* send_command: json.dump(command, f) and the close of the file
CallerDumpCommand ==
    /\ caller.pc = "dump"
    /\ \E c \in ChannelCommands :
          IF command_file = NoFile
          THEN UNCHANGED <<command_file, tag>>
          ELSE /\ command_file' = c
               /\ tag' = [tag EXCEPT !.command = caller.call]
    /\ caller' = [caller EXCEPT !.pc = "poll"]
    /\ UNCHANGED <<daemon_fields, result_file, pc, command_data, result, io>>

\* send_command: the wait loop finds the result file
CallerPoll ==
    /\ caller.pc = "poll"
    /\ result_file # NoFile
    /\ caller' = [caller EXCEPT !.pc = "read"]
    /\ UNCHANGED <<daemon_fields, command_file, result_file, pc, command_data, result,
                   io, tag>>

\* send_command: no result file and the 30 seconds are over
CallerTimeout ==
    /\ caller.pc = "poll"
    /\ result_file = NoFile
    /\ caller' = Idle(caller.call, "timeout", 0, TimeoutResult)
    /\ UNCHANGED <<daemon_fields, command_file, result_file, pc, command_data, result,
                   io, tag>>

\* send_command: open the result file, json.load it and return what it holds
CallerRead ==
    /\ caller.pc = "read"
    /\ caller' = IF result_file \in {NoFile, PartialFile}
                 THEN Idle(caller.call, "exception", 0, NoResult)
                 ELSE Idle(caller.call, "result", tag.result, result_file)
    /\ UNCHANGED <<daemon_fields, command_file, result_file, pc, command_data, result,
                   io, tag>>

\* write_result: open(self.result_file, 'w')
DaemonOpenResult ==
    /\ pc = "write"
    /\ result_file' = PartialFile
    /\ pc' = "dump"
    /\ UNCHANGED <<daemon_fields, command_file, command_data, result, io, caller, tag>>

\* write_result: json.dump(result, f) and the close of the file
DaemonDumpResult ==
    /\ pc = "dump"
    /\ IF result_file = NoFile
       THEN UNCHANGED <<result_file, tag>>
       ELSE /\ result_file' = result
            /\ tag' = [tag EXCEPT !.result = tag.data]
    /\ pc' = "remove"
    /\ UNCHANGED <<daemon_fields, command_file, command_data, result, io, caller>>

\* signal_handler up to sys.exit(0): exits tells whether sys.exit is reached;
\* otherwise close_browser raised, and the handler ends by that exception
signal_handler(d, done) ==
    LET d1 == [d EXCEPT !.running = FALSE]
        c == close_browser(d1, done)
    IN  IF ~d1.automation THEN [d |-> d1, exits |-> TRUE, calls |-> done]
        ELSE [d |-> c.d, exits |-> ~c.raised, calls |-> c.calls]

\* A signal arrives.  SystemExit passes every "except Exception" and ends the
\* process.  An exception of close_browser is caught where the code was: by the
\* except clause of execute_command (an error Result), of write_result, or of the
\* loop of run(); outside every try block it ends the process.
DaemonSignal ==
    /\ pc \in {"starting", "loop", "read", "execute", "write", "dump", "remove", "sleep",
               "backoff", "cleanup"}
    /\ LET h == signal_handler(DaemonState, tag.teardown) IN
       /\ SetDaemonState(h.d)
       /\ tag' = [tag EXCEPT !.interrupted = @ \/ pc = "execute", !.teardown = h.calls,
                             !.closes = IF automation THEN Closed(@) ELSE @]
       /\ pc' = IF h.exits \/ pc \in {"backoff", "cleanup"} THEN "exited"
                ELSE IF pc = "execute" THEN "write"
                ELSE IF pc = "dump" THEN "remove"
                ELSE "backoff"
       /\ result' = IF ~h.exits /\ pc = "execute"
                    THEN Result("error", Msg("", AttributeError), NoData)
                    ELSE result
    /\ UNCHANGED <<command_file, result_file, command_data, io, caller>>

\* A signal arrives while list_tabs refreshes tab i, or while current_tab refreshes
\* the current tab: the bare except clause of the refresh (lines 180, 205) catches
\* the SystemExit of the handler, and the dispatch goes on with the browser closed.
DaemonSignalInRefresh ==
    /\ pc = "execute"
    /\ command_data.dict
    /\ command_data.type \in {"list_tabs", "current_tab"}
    /\ pages # <<>>
    /\ command_data.type = "current_tab" => current_page_index.k = "int"
    /\ signal_handler(DaemonState, tag.teardown).exits
    /\ \E i \in 1..Len(pages) :
       \E ch \in [newpage : BOOLEAN, op : BOOLEAN, read : [1..MaxPages -> PageReads]] :
          LET before == {pages[j].page : j \in 1..(i - 1)}
              d == [DaemonState EXCEPT
                      !.running = FALSE,
                      !.live = [h \in 1..Len(live) |->
                                   live[h] /\ command_data.type = "list_tabs"
                                   /\ h \in before]]
              out == execute_command(d, command_data, ch)
              h == signal_handler(out.d, tag.teardown)
          IN  /\ SetDaemonState(h.d)
              /\ result' = out.result
              /\ io' = out.io
              /\ tag' = [tag EXCEPT !.interrupted = TRUE, !.teardown = h.calls,
                                    !.closes = Closed(@),
                                    !.dispatched = @ \cup {tag.data}]
    /\ pc' = "write"
    /\ UNCHANGED <<command_file, result_file, command_data, caller>>

ChannelNext ==
    \/ StartBrowser
    \/ StartBrowserFails
    \/ DaemonPoll
    \/ DaemonRead
    \/ DaemonExecute
    \/ DaemonOpenResult
    \/ DaemonDumpResult
    \/ DaemonRemove
    \/ DaemonSleep
    \/ DaemonBackoff
    \/ DaemonCleanup
    \/ DaemonSignal
    \/ DaemonSignalInRefresh
    \/ CallerBegin
    \/ CallerRemoveOld
    \/ CallerOpenCommand
    \/ CallerDumpCommand
    \/ CallerPoll
    \/ CallerTimeout
    \/ CallerRead

ChannelSpec == Init /\ [][ChannelNext]_vars

(***************************************************************************)
(* The daemon started again on the same two files, after the process has   *)
(* ended: the files of the channel outlive the process.                    *)
(***************************************************************************)
\* python3 browser_daemon.py once more: a new BrowserDaemon object and a new
\* browser; the command file and the result file are what the last process left
DaemonRestart ==
    /\ pc \in {"stopped", "exited"}
    /\ pages' = <<>>
    /\ current_page_index' = IntV(0)
    /\ running' = TRUE
    /\ automation' = FALSE
    /\ playwright' = FALSE
    /\ browser' = FALSE
    /\ context' = FALSE
    /\ page' = 0
    /\ live' = <<>>
    /\ pc' = "starting"
    /\ command_data' = NoCommand
    /\ result' = NoResult
    /\ io' = NoIo
    /\ tag' = [tag EXCEPT !.data = 0, !.interrupted = FALSE, !.teardown = <<>>,
                          !.closes = 0]
    /\ UNCHANGED <<command_file, result_file, caller>>

RestartNext ==
    \/ StartBrowser
    \/ StartBrowserFails
    \/ DaemonPoll
    \/ DaemonRead
    \/ DaemonExecute
    \/ DaemonOpenResult
    \/ DaemonDumpResult
    \/ DaemonRemove
    \/ DaemonSleep
    \/ DaemonBackoff
    \/ DaemonCleanup
    \/ DaemonSignal
    \/ DaemonSignalInRefresh
    \/ DaemonRestart
    \/ CallerBegin
    \/ CallerRemoveOld
    \/ CallerOpenCommand
    \/ CallerDumpCommand
    \/ CallerPoll
    \/ CallerTimeout
    \/ CallerRead

RestartSpec == Init /\ [][RestartNext]_vars

(***************************************************************************)
(* The channel under fair scheduling: the daemon is running when the       *)
(* caller makes its first call, no signal arrives, and the daemon, polling  *)
(* every 0.1 s, takes its steps well within the 30 s the caller waits, so   *)
(* the caller does not time out.  Both processes keep running: each takes   *)
(* a step whenever it can.                                                  *)
(***************************************************************************)
\* the daemon as start_browser leaves it when the browser has started, at the
\* first test of the loop of run()
RunningInit ==
    /\ pages = <<[page |-> 1, title |-> New_Tab, url |-> about_blank, index |-> 0,
                  purpose |-> Absent]>>
    /\ current_page_index = IntV(0)
    /\ running = TRUE
    /\ automation = TRUE
    /\ playwright = TRUE
    /\ browser = TRUE
    /\ context = TRUE
    /\ page = 1
    /\ live = <<TRUE>>
    /\ command_file = NoFile
    /\ result_file = Result("started", Msg("Browser daemon ready", <<>>), NoData)
    /\ pc = "loop"
    /\ command_data = NoCommand
    /\ result = NoResult
    /\ io = NoIo
    /\ caller = Idle(0, "none", 0, NoResult)
    /\ tag = NoTags

\* the steps of the daemon process
DaemonStep ==
    \/ DaemonPoll
    \/ DaemonRead
    \/ DaemonExecute
    \/ DaemonOpenResult
    \/ DaemonDumpResult
    \/ DaemonRemove
    \/ DaemonSleep
    \/ DaemonBackoff
    \/ DaemonCleanup

\* the steps of a call of send_command that has begun
CallerProgress ==
    \/ CallerRemoveOld
    \/ CallerOpenCommand
    \/ CallerDumpCommand
    \/ CallerPoll
    \/ CallerRead

FairNext ==
    \/ DaemonPoll
    \/ DaemonRead
    \/ DaemonExecute
    \/ DaemonOpenResult
    \/ DaemonDumpResult
    \/ DaemonRemove
    \/ DaemonSleep
    \/ DaemonBackoff
    \/ DaemonCleanup
    \/ CallerBegin
    \/ CallerRemoveOld
    \/ CallerOpenCommand
    \/ CallerDumpCommand
    \/ CallerPoll
    \/ CallerRead

FairSpec == RunningInit /\ [][FairNext]_vars /\ WF_vars(DaemonStep) /\ WF_vars(CallerProgress)

(***************************************************************************)
(* Properties of the dispatcher and of the loop.                           *)
(***************************************************************************)
\* the step is the dispatch of a command of type t: execute_command runs
Dispatches(t) ==
    pc = "execute" /\ pc' # "execute" /\ command_data.dict /\ command_data.type = t

\* the twelve types execute_command knows
KnownTypes ==
    {"navigate", "click", "fill", "screenshot", "title", "wait", "js",
     "new_tab", "switch_tab", "list_tabs", "current_tab", "stop"}

\* the number i is the index of a tab
ValidIndex(i) == i.k = "int" /\ 0 <= i.n /\ i.n < Len(pages)

\* C1: for every index i of a tab, switch_tab(i) followed by current_tab, with no
\* other command in between, yields a current_tab Result with data.tab_index = i.
\* In three parts: the dispatch of switch_tab(i) leaves current_page_index = i
\* (whatever its Result); nothing but a dispatch changes current_page_index or the
\* number of tabs; and a current_tab dispatched while current_page_index is i
\* returns success with tab_index = i.
C1_SwitchThenCurrent ==
    /\ [][(Dispatches("switch_tab") /\ command_data.args_dict
            /\ ValidIndex(command_data.args.index))
          => /\ current_page_index' = command_data.args.index
             /\ Len(pages') = Len(pages)]_vars
    /\ [][pc # "execute" /\ pc # "starting"
          => current_page_index' = current_page_index /\ Len(pages') = Len(pages)]_vars
    /\ [][(Dispatches("current_tab") /\ ValidIndex(current_page_index))
          => /\ pc' = "write"
             /\ result'.status = "success"
             /\ result'.data.k = "tab"
             /\ result'.data.tab_index = current_page_index]_vars

\* a current_tab Result that reports tab 0 of two tabs: only a switch_tab makes
\* tab 0 current again
C1_Witness ==
    /\ pc = "write"
    /\ command_data.type = "current_tab"
    /\ Len(pages) = 2
    /\ result.status = "success"
    /\ result.data.tab_index = IntV(0)

\* C2: switch_tab with an index outside [0, number of tabs) returns an error
\* Result and leaves current_page_index and automation.page unchanged.
C2_SwitchOutOfRange ==
    [][(Dispatches("switch_tab") /\ command_data.args_dict
         /\ command_data.args.index.k \in {"int", "float"}
         /\ (command_data.args.index.n < 0 \/ command_data.args.index.n >= Len(pages)))
       => /\ pc' = "write"
          /\ result'.status = "error"
          /\ current_page_index' = current_page_index
          /\ page' = page
          /\ pages' = pages]_vars

\* switch_tab(2) was refused while the second of two tabs is current
C2_Witness ==
    /\ pc = "write"
    /\ command_data.type = "switch_tab"
    /\ command_data.args.index = IntV(2)
    /\ Len(pages) = 2
    /\ current_page_index = IntV(1)
    /\ result.status = "error"

\* what C3 says of a dispatch of new_tab
NewTabAdded ==
    /\ Len(pages') = Len(pages) + 1
    /\ current_page_index' = IntV(Len(pages))
    /\ page' = pages'[Len(pages')].page
    /\ SubSeq(pages', 1, Len(pages)) = pages
    /\ pc' = "write"
    /\ result'.data.k = "new_tab"
    /\ result'.data.tab_index = Len(pages)

\* C3 as stated: every dispatch of new_tab adds exactly one tab, makes it the
\* current tab and returns a tab_index equal to the number of tabs before.
C3_EveryNewTab == [][Dispatches("new_tab") => NewTabAdded]_vars

\* C3 amended: every dispatch of new_tab that returns status success adds exactly
\* one tab, makes it the current tab and returns a tab_index equal to the number of
\* tabs before.
C3_NewTabSuccess ==
    [][(Dispatches("new_tab") /\ pc' = "write" /\ result'.status = "success")
       => NewTabAdded]_vars

\* a new_tab has returned success with tab_index 1
C3_Witness ==
    /\ pc = "write"
    /\ command_data.type = "new_tab"
    /\ result.status = "success"
    /\ result.data.tab_index = 1
    /\ Len(pages) = 2

\* the string begins with "http://" or "https://"
HasScheme(u) == \E n \in 1..Len(u) : SubSeq(u, 1, n) \in {http_, https_}

\* C4: for navigate and for new_tab with a url, the address handed to the page
\* automation is the supplied string unchanged when it begins with "http://" or
\* "https://", and "https://" followed by the supplied string otherwise; a
\* navigate with a string url always hands one.
C4_AddressHanded ==
    pc = "write" =>
        /\ io.op = "goto" =>
              /\ command_data.type \in {"navigate", "new_tab"}
              /\ command_data.args.url.k = "str"
              /\ io.target = IF HasScheme(command_data.args.url.s)
                             THEN command_data.args.url.s
                             ELSE https_ \o command_data.args.url.s
        /\ (command_data.dict /\ command_data.type = "navigate" /\ command_data.args_dict
              /\ command_data.args.url.k = "str") => io.op = "goto"

\* navigate with "bing.com" handed "https://bing.com" to the page
C4_Witness ==
    /\ pc = "write"
    /\ command_data.type = "navigate"
    /\ command_data.args.url = StrV(bing_com)
    /\ io.op = "goto"
    /\ io.target = https_bing_com

\* C5: list_tabs always returns success with one entry per registered tab; every
\* tab whose page cannot be read appears with title "Closed Tab", url
\* "about:blank" and active false.
C5_ListTabs ==
    [][Dispatches("list_tabs")
       => /\ pc' = "write"
          /\ result'.status = "success"
          /\ result'.data.k = "tabs"
          /\ Len(result'.data.tabs) = Len(pages)
          /\ Len(pages') = Len(pages)
          /\ \A i \in 1..Len(pages) :
                /\ result'.data.tabs[i].index = i - 1
                /\ (pages[i].page = 0 \/ ~live[pages[i].page]) =>
                      /\ result'.data.tabs[i].title = Closed_Tab
                      /\ result'.data.tabs[i].url = about_blank
                      /\ result'.data.tabs[i].active = FALSE]_vars

\* a list_tabs Result in which the current tab, the second of two, is closed
C5_Witness ==
    /\ pc = "write"
    /\ command_data.type = "list_tabs"
    /\ result.status = "success"
    /\ Len(pages) = 2
    /\ current_page_index = IntV(1)
    /\ result.data.tabs[2].title = Closed_Tab
    /\ result.data.tabs[2].active = FALSE
    /\ result.data.tabs[1].title # Closed_Tab

\* the command of the scenario: new_tab with purpose "search" and url "bing.com"
NewTabSearchBing ==
    Cmd("new_tab", [NoArgs EXCEPT !.purpose = StrV(search), !.url = StrV(bing_com)])

\* the data the scenario expects
NewTabSearchBingData ==
    [k |-> "new_tab", tab_index |-> 1, purpose |-> StrV(search), url |-> https_bing_com]

\* between two dispatches neither the current index nor the number of tabs changes
OnlyDispatchMovesTabs ==
    [][pc # "execute" /\ pc # "starting"
       => current_page_index' = current_page_index /\ Len(pages') = Len(pages)]_vars

StopResult == Result("success", Msg("Stopping daemon", <<>>), NoData)

\* a stop command has been dispatched
AfterStop ==
    \/ pc \in {"write", "remove"} /\ command_data.dict /\ command_data.type = "stop"
    \/ pc \in {"cleanup", "stopped"}

\* C7: the Result of a dispatched stop is {status: "success", message: "Stopping
\* daemon"}, it is the Result written, and after that the daemon never reads or
\* dispatches another command: it only writes the Result, removes the command
\* file, cleans up and stops.
C7_Stop ==
    /\ [][Dispatches("stop") => pc' = "write" /\ result' = StopResult]_vars
    /\ [][(pc = "write" /\ pc' # "write" /\ command_data.dict /\ command_data.type = "stop")
          => result_file' = StopResult]_vars
    /\ [][AfterStop => AfterStop' /\ pc' \notin {"loop", "read", "execute"}]_vars

\* the daemon has stopped and a command written afterwards stays in its file
C7_Witness == pc = "stopped" /\ command_file # NoFile /\ ~running

\* C8: a command whose type is not one of the twelve known types returns {status:
\* "error", message: "Unknown command: <type>"} and changes neither the tab list,
\* nor the current index, nor automation.page, nor the running flag.
C8_UnknownCommand ==
    [][(pc = "execute" /\ pc' # "execute" /\ command_data.dict
         /\ command_data.type \notin KnownTypes)
       => /\ pc' = "write"
          /\ result' = Result("error", Msg("Unknown command: ", <<command_data.type>>),
                              NoData)
          /\ UNCHANGED <<pages, current_page_index, page, running>>]_vars

\* "teleport" was answered with "Unknown command: teleport"
C8_Witness ==
    /\ pc = "write"
    /\ command_data.type = "teleport"
    /\ result.status = "error"
    /\ result.message = Msg("Unknown command: ", <<"teleport">>)

\* C9: whenever the page operation behind a navigate, click, fill, screenshot,
\* wait or js command fails, the Result of the command has status "error"; a
\* Result with status "success" is written only when the operation succeeded.
C9_FailureIsError ==
    (/\ pc = "write"
     /\ command_data.dict
     /\ command_data.type \in {"navigate", "click", "fill", "screenshot", "wait", "js"})
    => /\ io.failed => result.status = "error"
       /\ result.status = "success" => io.op # "none" /\ ~io.failed

\* C10: no command's execution ends the loop other than stop.  Whatever the
\* command and its args, execute_command returns a Result; the running flag falls
\* and the cleanup is reached only once a stop has been dispatched; and after any
\* other command the iteration ends in one of the two sleeps, from which the
\* daemon polls again.
C10_OnlyStopEndsLoop ==
    /\ [][pc = "execute" /\ pc' # "execute"
          => pc' = "write" /\ result'.status \in {"success", "error"}]_vars
    /\ [](~running => AfterStop)
    /\ [][pc' \in {"cleanup", "stopped"} => AfterStop]_vars
    /\ [][(pc = "remove" /\ pc' # "remove"
            /\ ~(command_data.dict /\ command_data.type = "stop"))
          => (pc' \in {"sleep", "backoff"} /\ running')]_vars
    /\ [][(pc \in {"sleep", "backoff"} /\ pc' # pc) => (pc' = "loop" /\ running')]_vars
    /\ [][pc = "loop" /\ pc' # pc => pc' \in {"sleep", "read"}]_vars

\* a command file that held no JSON object was answered with an error Result and
\* the daemon goes on
C10_Witness ==
    /\ pc = "backoff"
    /\ running
    /\ result_file # NoFile
    /\ result_file.status = "error"

\* a call of send_command has ended
CallEnded == caller.pc = "idle" /\ caller.call > 0

\* C11: under every interleaving of one caller's send_command with the daemon's
\* steps, a call of send_command ends by returning a mapping with a status and a
\* message, never by a raw exception such as the decode error of a result file
\* that exists and is not completely written.
C11_ReturnsMapping ==
    CallEnded =>
        /\ caller.out \in {"result", "timeout"}
        /\ caller.ret.status # ""
        /\ caller.ret.message # Msg("", <<>>)

\* C12: with a single caller whose calls of send_command follow one another (a
\* call may end by timeout before the next begins), a Result that a call reads
\* from the result file is the Result the daemon produced by dispatching that
\* call's command, never the Result of a command sent earlier.  (The Result that
\* start_browser writes belongs to no command: it has tag 0 and is left aside.)
C12_ResultOfThisCommand ==
    (CallEnded /\ caller.out = "result" /\ caller.got # 0) => caller.got = caller.call

\* the daemon is in its loop: it has started and neither stopped nor been killed
DaemonRunning == running /\ pc \notin {"starting", "cleanup", "stopped", "exited"}

\* C13: in the daemon loop the command file of a command is removed only after
\* that command's Result has been written to the result file; so while the caller
\* waits on a running daemon, there is no state in which its command file is
\* already gone and the result file is not there yet.
C13_NeverBothEmpty ==
    /\ [][(command_file # NoFile /\ command_file' = NoFile)
            => (pc = "remove" /\ pc' # "remove")]_vars
    /\ [][(pc # "remove" /\ pc' = "remove") => pc = "dump"]_vars
    /\ []((caller.pc = "poll" /\ DaemonRunning)
            => ~(command_file = NoFile /\ result_file = NoFile))

\* the file holds a complete JSON text
Complete(file) == file \notin {NoFile, PartialFile}

\* C14 as stated: the Result of a command is written to the result file only
\* after that command's command file has been consumed and removed: there is no
\* state in which the result file holds a command's Result while that command is
\* still in the command file.
C14_ResultAfterRemoval ==
    ~(/\ Complete(result_file)
      /\ Complete(command_file)
      /\ tag.result # 0
      /\ tag.result = tag.command)

\* C14 amended: the Result of a command is written to the result file only after
\* the daemon has read that command from the command file and dispatched it, and
\* the daemon removes the command file only after it has written the Result (so
\* the result file holds the Result while the command is still in its file, until
\* the removal).
C14_ResultThenRemoval ==
    /\ [][(pc # "starting" /\ result_file' # result_file /\ Complete(result_file'))
          => /\ pc = "dump"
             /\ command_data # NoCommand
             /\ result_file' = result
             /\ tag'.result = tag.data]_vars
    /\ [][(pc # "dump" /\ pc' = "dump") => (pc = "write" /\ result # NoResult)]_vars
    /\ [][(pc # "write" /\ pc' = "write") => pc = "execute"]_vars
    /\ [][(command_file # NoFile /\ command_file' = NoFile)
          => (pc = "remove" /\ pc' # "remove")]_vars
    /\ [][(pc # "remove" /\ pc' = "remove") => pc = "dump"]_vars

\* the daemon has written the Result of the caller's command and not yet removed
\* the command file, which still holds that command
C14_Witness ==
    /\ pc = "remove"
    /\ caller.pc = "poll"
    /\ Complete(result_file)
    /\ Complete(command_file)
    /\ tag.result = caller.call
    /\ tag.command = caller.call
    /\ command_file = command_data

\* C15: after any sequence of dispatched commands with any argument values,
\* whenever the tab list is non-empty current_page_index is an integer with
\* 0 <= current_page_index < number of tabs, so exactly one tab is current.
C15_IndexInRange ==
    pages # <<>> =>
        /\ current_page_index.k = "int"
        /\ 0 <= current_page_index.n
        /\ current_page_index.n < Len(pages)
        /\ Cardinality({i \in 1..Len(pages) :
                           NumEq(IntV(i - 1), current_page_index)}) = 1

\* C16: in every reachable state the tab at position k of the tab list has index
\* k and the indices (and the pages) are pairwise distinct; the tab list only
\* grows by appending: no step removes, reorders or replaces a tab (a tab keeps
\* its page, its index and its purpose), and a tab is added only by new_tab (and
\* by start_browser, which registers the first tab before any command).  The
\* list is empty at first, and every step that changes it leaves it so.
C16_AppendOnly ==
    [][pages' # pages
       => /\ Len(pages') >= Len(pages)
          /\ \A k \in 1..Len(pages) :
                /\ pages'[k].page = pages[k].page
                /\ pages'[k].index = pages[k].index
                /\ pages'[k].purpose = pages[k].purpose
          /\ Len(pages') # Len(pages)
                => /\ Len(pages') = Len(pages) + 1
                   /\ pc = "starting" \/ Dispatches("new_tab")
          /\ \A k \in 1..Len(pages') :
                /\ pages'[k].index = k - 1
                /\ \A j \in 1..(k - 1) :
                      /\ pages'[j].index # pages'[k].index
                      /\ pages'[j].page # pages'[k].page]_vars

\* two tabs, the first one closed from outside and listed since, the second one
\* added by new_tab: both are still in the list at their positions
C16_Witness ==
    /\ Len(pages) = 2
    /\ ~live[pages[1].page]
    /\ pages[2].index = 1
    /\ pages[2].title = <<"Bing">>
    /\ pc = "write"
    /\ command_data.type = "list_tabs"

\* start_browser has failed: it is over and has registered no tab
StartupFailed == pc # "starting" /\ pages = <<>>

\* C17: the daemon enters the poll/dispatch cycle only after a successful
\* startup: if acquiring the browser fails, an error Result is recorded and the
\* daemon goes to STOPPED without ever polling the command file or dispatching a
\* command.
C17_FailedStartStops ==
    /\ [][(pc = "starting" /\ pages' = <<>> /\ pc' # "starting")
          => result_file'.status = "error"]_vars
    /\ [](StartupFailed => pc \notin {"sleep", "read", "execute", "write", "remove"})
    /\ [][StartupFailed => command_data' = NoCommand]_vars

\* C18: if an interrupt or termination signal arrives after the daemon has read a
\* command and before that command's dispatch has finished, at whatever point of
\* the dispatch (the refresh of list_tabs or current_tab included), no Result for
\* that command is ever written to the result file: from the signal on, the
\* daemon leaves the result file as it is.
C18_InterruptedNoResult ==
    [][tag.interrupted => (result_file' = result_file \/ caller' # caller)]_vars

\* a step of a call of send_command that has begun
CallerStep ==
    \/ CallerRemoveOld
    \/ CallerOpenCommand
    \/ CallerDumpCommand
    \/ CallerPoll
    \/ CallerTimeout
    \/ CallerRead

\* C19: send_command always terminates: a call that has begun can always take its
\* next step, whatever the daemon does (it waits only while there is no result
\* file, and the timeout ends that wait); once the result file exists it returns
\* the content of the file; and if none appears within the 30 seconds it returns
\* {status: "error", message: "Command timeout"} and leaves the command file as
\* it is.
C19_SendCommandReturns ==
    /\ [](caller.pc # "idle" => ENABLED CallerStep)
    /\ [][(caller.pc = "read" /\ caller'.pc = "idle")
          => (caller'.out = "result" /\ caller'.ret = result_file)]_vars
    /\ [][(caller.pc = "poll" /\ caller'.pc = "idle")
          => /\ result_file = NoFile
             /\ caller'.out = "timeout"
             /\ caller'.ret = TimeoutResult
             /\ command_file' = command_file]_vars

\* the types of the commands that act on automation.page
TabScoped == {"navigate", "click", "fill", "screenshot", "title", "wait", "js"}

\* C20: in every state in which the daemon dispatches a tab-scoped command
\* (navigate, click, fill, screenshot, title, wait, js), the page it acts on,
\* automation.page, is the page of the tab at current_page_index, the tab that
\* current_tab and list_tabs report as current.
C20_ActsOnCurrentTab ==
    (pc = "execute" /\ command_data.dict /\ command_data.type \in TabScoped)
    => /\ ValidIndex(current_page_index)
       /\ page = pages[current_page_index.n + 1].page

\* C21: current_page_index is changed only by new_tab and switch_tab: the
\* dispatch of navigate, click, fill, screenshot, title, wait, js, list_tabs,
\* current_tab, stop or of an unknown type, and every other step of the daemon
\* once the browser is started, leaves current_page_index and the number of tabs
\* as they were.
C21_OnlyTabCommandsMoveIndex ==
    [][(current_page_index' # current_page_index \/ Len(pages') # Len(pages))
       => (Dispatches("new_tab") \/ Dispatches("switch_tab") \/ pc = "starting")]_vars

\* current_tab was dispatched with the second tab current and its page closed
C21_Witness ==
    /\ pc = "write"
    /\ command_data.type = "current_tab"
    /\ Len(pages) = 2
    /\ current_page_index = IntV(1)
    /\ ~live[pages[2].page]
    /\ result.status = "success"

\* C22: switch_tab with the index of a tab succeeds even when bringing the page
\* to the foreground fails: the Result has status "success" with the tab's cached
\* title, url and purpose, and the tab becomes current.
C22_SwitchSurvivesFront ==
    [][(Dispatches("switch_tab") /\ command_data.args_dict
         /\ ValidIndex(command_data.args.index))
       => LET current_tab == pages[command_data.args.index.n + 1] IN
          /\ pc' = "write"
          /\ result'.status = "success"
          /\ result'.data = [k |-> "tab", tab_index |-> command_data.args.index,
                             title |-> current_tab.title, url |-> current_tab.url,
                             purpose |-> TabPurpose(current_tab)]
          /\ current_page_index' = command_data.args.index]_vars

\* C23: current_tab applies the fallback of list_tabs: when the title and url of
\* the current tab cannot be read, the Result reports the title "Closed Tab" and
\* the url "about:blank" for it; with an empty tab list the Result is an error.
C23_CurrentTabFallback ==
    /\ [][(Dispatches("current_tab") /\ ValidIndex(current_page_index)
            /\ ~live[pages[current_page_index.n + 1].page])
          => /\ pc' = "write"
             /\ result'.status = "success"
             /\ result'.data.title = Closed_Tab
             /\ result'.data.url = about_blank]_vars
    /\ [][(Dispatches("current_tab") /\ pages = <<>>)
          => pc' = "write" /\ result'.status = "error"]_vars

\* C30: every object the daemon writes to the result slot, from the start of the
\* process to its exit, has a status that is exactly "success" or "error", and a
\* message that is a string.
C30_StatusSuccessOrError ==
    Complete(result_file) => result_file.status \in {"success", "error"}

\* C24: when reading or deserializing the command file raises inside the loop
\* (the file exists but its content is incomplete), the daemon does not leave the
\* loop: it backs off and polls again.  The loop is left only with the running
\* flag down, and the flag falls only when a stop is dispatched or a signal
\* arrives.
C24_ReadErrorBacksOff ==
    /\ [][(pc = "read" /\ pc' # "read" /\ running' = running /\ ~Complete(command_file))
          => (pc' = "backoff" /\ running')]_vars
    /\ [][(pc = "backoff" /\ pc' # pc) => pc' \in {"loop", "exited"}]_vars
    /\ [][(pc = "loop" /\ pc' # pc /\ running') => pc' \in {"sleep", "read"}]_vars
    /\ [][(pc' \in {"cleanup", "stopped", "exited"} /\ pc' # pc) => ~running']_vars
    /\ [][(running /\ ~running')
          => (Dispatches("stop") \/ DaemonSignal \/ DaemonSignalInRefresh)]_vars

\* the daemon found the command file half written, backed off, and runs on
C24_Witness ==
    /\ pc = "backoff"
    /\ running
    /\ command_file = PartialFile
    /\ command_data = NoCommand
    /\ result = NoResult

\* the daemon process has ended: after the cleanup of run(), or by sys.exit or an
\* uncaught exception in the signal handler
Stopped == pc \in {"stopped", "exited"}

\* C28: on every path into the teardown (stop command or signal) the browser
\* context is closed before the automation engine is stopped, and the engine is
\* never stopped while the context is still open; the stopped state is terminal.
\* A daemon whose browser context exists ends with exactly the two calls
\* context.close(), playwright.stop() in this order; in every teardown a
\* playwright.stop() of a browser with a context comes after a context.close();
\* and once the process has ended no field of the daemon changes.
C28_ContextBeforeEngine ==
    /\ [](\A i \in 1..Len(tag.teardown) :
             (tag.teardown[i] = "playwright.stop" /\ context)
             => \E j \in 1..(i - 1) : tag.teardown[j] = "context.close")
    /\ []((Stopped /\ context) => tag.teardown = <<"context.close", "playwright.stop">>)
    /\ [][Stopped => (pc' = pc /\ UNCHANGED daemon_fields
                      /\ tag'.teardown = tag.teardown)]_vars

\* a signal ended the daemon inside the loop after both calls of the teardown
C28_Witness ==
    /\ pc = "exited"
    /\ command_data # NoCommand
    /\ tag.teardown = <<"context.close", "playwright.stop">>
    /\ \A h \in 1..Len(live) : ~live[h]

\* C29: when stop is dispatched, the loop ends and the browser resources are
\* released only after the Result of the stop command has been written to the
\* result file and the command file has been removed.  The dispatch of stop
\* releases nothing; the cleanup is entered only by the step that removes the
\* command file of a stop whose Result is in the result file; and the daemon
\* closes pages and makes its teardown calls only in the cleanup.
C29_StopReleasesLast ==
    [][/\ Dispatches("stop")
          => (pc' = "write" /\ live' = live /\ tag'.teardown = <<>>)
       /\ (pc' = "cleanup" /\ pc # "cleanup")
          => /\ pc = "remove"
             /\ command_data.dict /\ command_data.type = "stop"
             /\ result_file = StopResult
             /\ command_file # NoFile /\ command_file' = NoFile
             /\ tag.teardown = <<>>
       /\ (tag'.teardown # tag.teardown
            \/ (pc' # pc /\ \E h \in 1..Len(live) : live[h] /\ ~live'[h]))
          => pc = "cleanup"
       /\ (pc' = "stopped" /\ pc # "stopped") => pc = "cleanup"]_vars

\* the daemon has stopped after a stop command: the Result of stop is in the
\* result file, the command file is gone and the browser is torn down
C29_Witness ==
    /\ pc = "stopped"
    /\ result_file = StopResult
    /\ command_file = NoFile
    /\ tag.teardown = <<"context.close", "playwright.stop">>
    /\ \A h \in 1..Len(live) : ~live[h]

\* C26: the daemon processes commands strictly one at a time, in the order it
\* observes them: it never reads the command file for a next command before the
\* dispatch of the previous command has finished, its Result has been written
\* and its command file has been removed.  A dispatch is followed by the two
\* steps of write_result and by the removal, in this order; the removal leaves no
\* command file and ends the iteration; and the command file is read only from
\* the loop test, with the running flag up and no command in hand.
C26_OneAtATime ==
    [][/\ (pc = "execute" /\ pc' # pc) => pc' \in {"write", "exited"}
       /\ (pc = "write" /\ pc' # pc)
          => (pc' \in {"dump", "exited"} \/ (pc' = "backoff" /\ ~running'))
       /\ (pc = "dump" /\ pc' # pc) => pc' \in {"remove", "exited"}
       /\ (pc = "remove" /\ pc' # pc)
          => \/ pc' = "exited"
             \/ pc' = "backoff" /\ ~running'
             \/ /\ pc' \in {"sleep", "cleanup"}
                /\ command_file' = NoFile
                /\ command_data' = NoCommand
                /\ result' = NoResult
       /\ (pc' = "read" /\ pc # "read")
          => (pc = "loop" /\ running /\ command_data = NoCommand /\ result = NoResult)
       /\ (pc' = "execute" /\ pc # "execute")
          => (pc = "read" /\ command_data' = command_file /\ tag'.data = tag.command)]_vars

\* the daemon reads the caller's second command after it has answered and removed
\* the first
C26_Witness ==
    /\ pc = "read"
    /\ tag.data = 1
    /\ tag.dispatched = {1}
    /\ tag.command = 2
    /\ Complete(command_file)
    /\ command_data = NoCommand

\* C27: each command written to the command file is dispatched at most once by
\* any daemon polling the two files, also when a signal stops the daemon between
\* the read of the command and the removal of the command file, and also when
\* the removal fails: execute_command never runs for a command of the caller
\* that it has run for before.
C27_AtMostOnce ==
    [][(pc = "execute" /\ pc' = "write" /\ tag.data # 0 /\ ~DaemonSignal)
       => tag.data \notin tag.dispatched]_vars

\* the caller's command number n is in the command file, complete, and the daemon
\* is up
Pending(n) == Complete(command_file) /\ tag.command = n /\ running

\* C25: under fairness, with a single caller, a running daemon, no signal and
\* page operations that return, every command that send_command writes to the
\* command file is eventually dispatched, its Result eventually appears in the
\* result file, and the command file is eventually removed (unless a stop has
\* ended the daemon meanwhile); also when the daemon first sees the command file
\* while the caller is still writing it.
C25_EveryCommandServed ==
    \A n \in 1..MaxCalls :
       /\ Pending(n) ~> (n \in tag.dispatched \/ ~running)
       /\ Pending(n) ~> ((Complete(result_file) /\ tag.result = n) \/ ~running)
       /\ Pending(n) ~> (command_file = NoFile \/ ~running)

\* C31: a wait command that carries a timeout argument waits for the selector
\* with that timeout; without the argument the default of 30 time-units (30000
\* milliseconds) is used.
C31_WaitTimeout ==
    [][(Dispatches("wait") /\ command_data.args_dict /\ io'.op = "wait")
       => io'.target = IF command_data.args.timeout = Absent
                       THEN <<"30000">>
                       ELSE Render(command_data.args.timeout)]_vars

\* the Result start_browser writes when the browser has started
ReadyResult == Result("started", Msg("Browser daemon ready", <<>>), NoData)

\* C32: the startup Result that the daemon writes when it becomes ready is never
\* returned by send_command as the response to a command, under any interleaving
\* of the start of the daemon with a caller's send_command (also for a command
\* sent before the daemon has finished starting).
C32_ReadyResultNotReturned ==
    (CallEnded /\ caller.out = "result") => caller.ret # ReadyResult

\* the entries of a list_tabs Result that have active true
ActiveEntries(data) == {i \in 1..Len(data.tabs) : data.tabs[i].active}

\* C33: in every list_tabs Result of a daemon with tabs exactly one entry has
\* active true, and it is the entry whose index equals data.current_tab, also
\* when some tabs (possibly the current one) are dead.
C33_ExactlyOneActive ==
    [][(Dispatches("list_tabs") /\ pages # <<>>)
       => /\ pc' = "write"
          /\ Cardinality(ActiveEntries(result'.data)) = 1
          /\ \A i \in ActiveEntries(result'.data) :
                NumEq(IntV(result'.data.tabs[i].index), result'.data.current_tab)]_vars

\* C33 as the code has it: in every list_tabs Result at most one entry has active
\* true; an entry has active true exactly when its index equals data.current_tab
\* and the title and url of its tab could be read, so the entry of a dead tab has
\* active false also when it is the current tab; data.current_tab is
\* current_page_index.
C33_ActiveIsLiveCurrent ==
    [][Dispatches("list_tabs")
       => /\ pc' = "write"
          /\ result'.data.k = "tabs"
          /\ result'.data.current_tab = current_page_index
          /\ Cardinality(ActiveEntries(result'.data)) <= 1
          /\ \A i \in 1..Len(pages) :
                result'.data.tabs[i].active
                = (/\ PageAlive(DaemonState, pages[i].page)
                   /\ NumEq(IntV(result'.data.tabs[i].index),
                            result'.data.current_tab))]_vars

\* a list_tabs Result of two tabs with no active entry: the first tab is current
\* and its page is closed, the second is open
C33_Witness ==
    /\ pc = "write"
    /\ command_data.type = "list_tabs"
    /\ Len(result.data.tabs) = 2
    /\ result.data.current_tab = IntV(0)
    /\ ~live[pages[1].page]
    /\ live[pages[2].page]
    /\ ActiveEntries(result.data) = {}

\* C34: whenever the Result of a command has status "error", the number of tabs,
\* current_page_index and the page that commands act on are the same after the
\* command as before it (in particular for a new_tab whose navigation fails and
\* for a switch_tab whose foregrounding fails).  Stated for the commands whose
\* tab index, if any, is an integer.
C34_ErrorChangesNothing ==
    [][(pc = "execute" /\ pc' = "write" /\ result'.status = "error"
         /\ command_data.args.index.k \in {"absent", "int"})
       => /\ Len(pages') = Len(pages)
          /\ current_page_index' = current_page_index
          /\ page' = page]_vars

\* C35: the teardown of the browser (close_browser) runs at most once in the
\* life of a daemon, under every interleaving of a signal with the loop, with
\* the dispatch of a command and with the cleanup that follows a stop.  Stated
\* for a daemon whose browser context exists.
C35_TeardownOnce ==
    [][(pc = "cleanup" /\ pc' = "stopped" /\ automation /\ context)
       => tag.closes = 0]_vars

\* C36: if the browser failed to start, every command the daemon dispatches
\* afterwards, stop apart, returns {status: "error", message: "Browser not
\* started"}, and none returns status "success".  Stated for the commands of
\* the vocabulary sent as JSON objects.
C36_NotStartedRefusesAll ==
    [][(StartupFailed /\ pc = "execute" /\ pc' = "write"
         /\ command_data.dict /\ command_data.args_dict
         /\ command_data.type \notin {"stop", "frobnicate", "None"})
       => /\ result'.status # "success"
          /\ result' = Result("error", Msg("Browser not started", <<>>), NoData)]_vars

====
